---- MODULE Spec2Model ----
(***************************************************************************)
(* Model of find_exclusive_sets.py: the argument checks, the cross-cohort  *)
(* alignment, the permuted-file grouping, the weight-matrix merge and the  *)
(* dispatch to the search engines.                                         *)
(*                                                                         *)
(* Gene and patient identifiers are the integers 1..NumGenes and           *)
(* 1..NumPatients; the order of the integers stands for the order of the   *)
(* identifier strings.  A Python exception is a record [kind, line].       *)
(***************************************************************************)
EXTENDS Integers, Sequences, FiniteSets, TLC

\* ------------------------------------------------------------------ bounds
NumGenes == 3
NumPatients == 2
MaxCohorts == 2
MaxFrequency == 2
MaxFiles == 2
MaxPermutations == 2

Genes == 1..NumGenes
Patients == 1..NumPatients

\* ------------------------------------------------------- Python helpers
SeqRange(s) == {s[i] : i \in DOMAIN s}

\* raise <kind> at source line <line>
Raise(kind, line) == [kind |-> kind, line |-> line]
NoError == [kind |-> "none", line |-> 0]

\* getattr on an argparse Namespace: a missing attribute is an AttributeError
HasAttr(a, name) == name \in DOMAIN a

\* sorted(iterable), by insertion into an ascending list
RECURSIVE Insert(_, _)
Insert(x, s) ==
    IF s = <<>> THEN <<x>>
    ELSE IF x <= Head(s) THEN <<x>> \o s
    ELSE <<Head(s)>> \o Insert(x, Tail(s))

RECURSIVE sorted(_)
sorted(s) == IF s = <<>> THEN <<>> ELSE Insert(Head(s), sorted(Tail(s)))

\* dict(zip(keys, range(len(keys)))): a later duplicate key overwrites
DictZipRange(keys) ==
    [g \in SeqRange(keys) |->
        (CHOOSE i \in DOMAIN keys :
            keys[i] = g /\ \A j \in DOMAIN keys : keys[j] = g => j <= i) - 1]

\* the orders in which a set may be iterated
RECURSIVE Ascending(_)
Ascending(S) ==
    IF S = {} THEN <<>>
    ELSE LET x == CHOOSE x \in S : \A y \in S : x <= y
         IN  <<x>> \o Ascending(S \ {x})

Reverse(s) == [i \in DOMAIN s |-> s[Len(s) + 1 - i]]

IterationOrders(S) == {Ascending(S), Reverse(Ascending(S))}

\* combinations(pool, r) of itertools: the r-long subsequences of pool, in
\* lexicographic order of their positions
RECURSIVE combinations(_, _)
combinations(pool, r) ==
    IF r = 0 THEN << <<>> >>
    ELSE IF Len(pool) < r THEN <<>>
    ELSE LET withHead == combinations(Tail(pool), r - 1)
         IN  [i \in DOMAIN withHead |-> <<Head(pool)>> \o withHead[i]]
             \o combinations(Tail(pool), r)

\* ------------------------------------------- names the module can resolve
\* lines 4-7: the imports; lines 15-78: the module's own functions
OwnGlobals ==
    {"sys", "os", "argparse", "np", "json", "combinations", "defaultdict",
     "time", "get_parser", "get_permuted_files", "load_weight_files", "run"}

\* line 12: from weighted_exclusivity_test import * (the collaborators of the
\* search layer: loader, tests, engines, emitters and their tables)
StarImported ==
    {"SET_SIZES_IMPLEMENTED", "METHOD_NAMES", "load_mutation_data",
     "nameToTest", "nameToMethod", "WEIGHTED", "PERMUTATIONAL",
     "permutational_test", "test_sets", "output_enumeration_table",
     "mcmc", "output_mcmc"}

ModuleGlobals == OwnGlobals \cup StarImported

SET_SIZES_IMPLEMENTED == {2, 3}
METHOD_NAMES == {"Exact"}
nameToTest ==
    [t \in {"Permutational", "Weighted", "Unweighted"} |->
        CASE t = "Permutational" -> "PERMUTATIONAL"
          [] t = "Weighted" -> "WEIGHTED"
          [] OTHER -> "UNWEIGHTED"]

\* ------------------------------------------------------------ get_parser
\* The attributes parse_args puts on the Namespace, by their dest names.
GeneSetSizes ==
    {<<>>} \cup {<<k>> : k \in SET_SIZES_IMPLEMENTED}
        \cup {p \in SET_SIZES_IMPLEMENTED \X SET_SIZES_IMPLEMENTED : p[1] < p[2]}

FileNames(n) == [i \in 1..n |-> i]

CommonNamespace ==
    {[mutation_files |-> FileNames(L), min_frequency |-> f,
      search_strategy |-> s, gene_set_sizes |-> ks] :
        L \in 0..MaxCohorts, f \in 1..MaxFrequency,
        s \in {"Enumerate", "MCMC"}, ks \in GeneSetSizes}

PermutationalNamespace ==
    {c @@ [test |-> "Permutational", num_permutations |-> np,
           permuted_matrix_files |-> FileNames(D)] :
        c \in CommonNamespace, np \in 0..MaxPermutations, D \in 0..MaxCohorts}

WeightedNamespace ==
    {c @@ [test |-> "Weighted", method |-> m, weights_file |-> 1] :
        c \in CommonNamespace, m \in METHOD_NAMES}

UnweightedNamespace ==
    {c @@ [test |-> "Unweighted", method |-> m] :
        c \in CommonNamespace, m \in METHOD_NAMES}

get_parser == PermutationalNamespace \cup WeightedNamespace \cup UnweightedNamespace

\* --------------------------------------------------- load_mutation_data
\* What the cohort loader returns for one mutation file: the genes in file
\* order, the patients, and the cases of each gene.  The files of the model:
\* genes 1..hi listed ascending or descending, patients first..NumPatients,
\* gene g altered in the g patients from `first` on.
Cohort(listing, first) ==
    [type_genes |-> listing,
     type_patients |-> {q \in Patients : q >= first},
     typeGeneToCases |->
        [g \in SeqRange(listing) |-> {q \in Patients : first <= q /\ q < first + g}]]

MutationData ==
    {Cohort(l, first) :
        l \in UNION {IterationOrders(1..hi) : hi \in 0..NumGenes},
        first \in Patients}

\* ------------------------------------------------------------------- run
VARIABLES
    args,            \* the Namespace run is called with
    pc,              \* where run is
    err,             \* the exception that ended run, or NoError
    mutation_data,   \* what load_mutation_data returned, call by call
    genes, patients, geneToCases, typeToGenes, typeToGeneIndex,
    num_all_genes, num_patients, num_genes, geneToIndex, geneToP,
    sets,            \* the candidate sets built by Enumerate
    tested,          \* the candidate sets handed to a test, in order
    calls            \* the collaborators and file operations invoked, in order

runVars ==
    <<args, pc, err, mutation_data, genes, patients, geneToCases, typeToGenes,
      typeToGeneIndex, num_all_genes, num_patients, num_genes, geneToIndex,
      geneToP, sets, tested, calls>>

\* the frame of get_permuted_files
VARIABLES
    permuted_matrix_directories,  \* parameter: one directory per cohort
    num_permutations,             \* parameter
    listed,                       \* what os.listdir returned, call by call
    permuted_directory_files,     \* line 51
    permuted_files,               \* the value returned
    pf_pc, pf_err

pfVars ==
    <<permuted_matrix_directories, num_permutations, listed,
      permuted_directory_files, permuted_files, pf_pc, pf_err>>

\* the frame of load_weight_files
VARIABLES
    lw,              \* the parameters: weights_files, m, n, typeToGenes,
                     \* typeToGeneIndex, geneToIndex
    P,               \* line 62, a matrix as rows of cells
    patient_index,   \* line 63
    lw_i,            \* line 64: the weights files read so far
    lw_pc, lw_err

lwVars == <<lw, P, patient_index, lw_i, lw_pc, lw_err>>

\* lines 80-84 without the Permutational branch
check_arguments_weighted_only(a) ==
    IF a.test = "Weighted" THEN
        IF ~HasAttr(a, "weights_files") THEN Raise("AttributeError", 84)
        ELSE IF Len(a.mutation_files) # Len(a.weights_files)
            THEN Raise("AssertionError", 84)
        ELSE NoError
    ELSE NoError

\* lines 80-84
check_arguments(a) ==
    IF a.test = "Permutational" THEN
        IF ~HasAttr(a, "permuted_matrix_directories") THEN Raise("AttributeError", 81)
        ELSE IF Len(a.mutation_files) # Len(a.permuted_matrix_directories)
            THEN Raise("AssertionError", 81)
        ELSE IF ~HasAttr(a, "strategy") THEN Raise("AttributeError", 82)
        ELSE IF a.strategy = "MCMC" THEN Raise("AssertionError", 82)
        ELSE NoError
    ELSE IF a.test = "Weighted" THEN
        IF ~HasAttr(a, "weights_files") THEN Raise("AttributeError", 84)
        ELSE IF Len(a.mutation_files) # Len(a.weights_files)
            THEN Raise("AssertionError", 84)
        ELSE NoError
    ELSE NoError

\* line 102: geneToCases[g] |= cases, on a defaultdict(set)
RecordMutations(acc, typeGeneToCases) ==
    [g \in DOMAIN acc \cup DOMAIN typeGeneToCases |->
        (IF g \in DOMAIN acc THEN acc[g] ELSE {})
            \cup (IF g \in DOMAIN typeGeneToCases THEN typeGeneToCases[g] ELSE {})]

\* line 111 with > for >=
RestrictToFrequency_strict(g2c, gs, min_frequency) ==
    [g \in {h \in DOMAIN g2c : h \in gs /\ Cardinality(g2c[h]) > min_frequency}
        |-> g2c[g]]

\* line 111
RestrictToFrequency(g2c, gs, min_frequency) ==
    [g \in {h \in DOMAIN g2c : h \in gs /\ Cardinality(g2c[h]) >= min_frequency}
        |-> g2c[g]]

\* line 114 without sorted
IndexGenes_unsorted(iteration) == DictZipRange(iteration)

\* line 114: dict(zip(sorted(genes), range(num_genes)))
IndexGenes(iteration) == DictZipRange(sorted(iteration))

\* line 141 with the last gene of the pool left out
CandidateSets_short_pool(iteration, k) ==
    LET tuples == combinations(SubSeq(iteration, 1, Len(iteration) - 1), k)
    IN  [i \in DOMAIN tuples |-> SeqRange(tuples[i])]

\* line 141: list(frozenset(t) for t in combinations(genes, k))
CandidateSets(iteration, k) ==
    LET tuples == combinations(iteration, k)
    IN  [i \in DOMAIN tuples |-> SeqRange(tuples[i])]

RunStart(a, at) ==
    /\ args = a
    /\ pc = at
    /\ err = NoError
    /\ mutation_data = <<>>
    /\ genes = {}
    /\ patients = {}
    /\ geneToCases = <<>>
    /\ typeToGenes = <<>>
    /\ typeToGeneIndex = <<>>
    /\ num_all_genes = 0
    /\ num_patients = 0
    /\ num_genes = 0
    /\ geneToIndex = <<>>
    /\ geneToP = "unset"
    /\ sets = <<>>
    /\ tested = <<>>
    /\ calls = <<>>

RunInit == \E a \in get_parser : RunStart(a, "check")

\* run is not executing: a function of the module is called on its own
RunIdle == RunStart(<<>>, "idle")

\* lines 79-84
CheckArguments ==
    /\ pc = "check"
    /\ LET e == check_arguments(args)
       IN  /\ err' = e
           /\ pc' = IF e = NoError THEN "load" ELSE "failed"
    /\ UNCHANGED <<args, mutation_data, genes, patients, geneToCases, typeToGenes,
                   typeToGeneIndex, num_all_genes, num_patients, num_genes,
                   geneToIndex, geneToP, sets, tested, calls>>
    /\ UNCHANGED <<pfVars, lwVars>>

\* lines 92-106, one iteration
LoadMutationData ==
    /\ pc = "load"
    /\ Len(typeToGenes) < Len(args.mutation_files)
    /\ \E d \in MutationData :
        /\ mutation_data' = Append(mutation_data, d)
        /\ patients' = patients \cup d.type_patients
        /\ genes' = genes \cup SeqRange(d.type_genes)
        /\ geneToCases' = RecordMutations(geneToCases, d.typeGeneToCases)
        /\ typeToGenes' = Append(typeToGenes, d.type_genes)
        /\ typeToGeneIndex' = Append(typeToGeneIndex, DictZipRange(d.type_genes))
    /\ calls' = Append(calls, "load_mutation_data")
    /\ UNCHANGED <<args, pc, err, num_all_genes, num_patients, num_genes,
                   geneToIndex, geneToP, sets, tested>>
    /\ UNCHANGED <<pfVars, lwVars>>

\* lines 108-115, after the last mutation file (gene_indices of line 115 is
\* read nowhere)
RestrictGenes ==
    /\ pc = "load"
    /\ Len(typeToGenes) = Len(args.mutation_files)
    /\ num_all_genes' = Cardinality(genes)
    /\ num_patients' = Cardinality(patients)
    /\ geneToCases' = RestrictToFrequency(geneToCases, genes, args.min_frequency)
    /\ genes' = DOMAIN geneToCases'
    /\ num_genes' = Cardinality(genes')
    /\ \E iteration \in IterationOrders(genes') :
        geneToIndex' = IndexGenes(iteration)
    /\ pc' = "weights"
    /\ UNCHANGED <<args, err, mutation_data, patients, typeToGenes, typeToGeneIndex,
                   geneToP, sets, tested, calls>>
    /\ UNCHANGED <<pfVars, lwVars>>

\* lines 123-127.  Line 125 passes weights_files, a name bound neither in run
\* nor in the module: evaluating the call's arguments raises NameError.
LoadWeights ==
    /\ pc = "weights"
    /\ IF nameToTest[args.test] = "WEIGHTED"
         THEN /\ "weights_files" \notin ModuleGlobals
              /\ err' = Raise("NameError", 125)
              /\ pc' = "failed"
              /\ UNCHANGED geneToP
         ELSE /\ geneToP' = "None"
              /\ pc' = "permuted"
              /\ UNCHANGED err
    /\ UNCHANGED <<args, mutation_data, genes, patients, geneToCases, typeToGenes,
                   typeToGeneIndex, num_all_genes, num_patients, num_genes,
                   geneToIndex, sets, tested, calls>>
    /\ UNCHANGED <<pfVars, lwVars>>

\* lines 130-133.  Line 131 reads args.permuted_matrix_directories, which
\* get_parser never sets (its dest is permuted_matrix_files).
FindPermuted ==
    /\ pc = "permuted"
    /\ IF nameToTest[args.test] = "PERMUTATIONAL"
         THEN /\ ~HasAttr(args, "permuted_matrix_directories")
              /\ err' = Raise("AttributeError", 131)
              /\ pc' = "failed"
         ELSE /\ pc' = "search"
              /\ UNCHANGED err
    /\ UNCHANGED <<args, mutation_data, genes, patients, geneToCases, typeToGenes,
                   typeToGeneIndex, num_all_genes, num_patients, num_genes,
                   geneToIndex, geneToP, sets, tested, calls>>
    /\ UNCHANGED <<pfVars, lwVars>>

\* lines 136-158 (the parser's choices keep search_strategy to the two
\* branches, so the raise of line 160 has no input)
Search ==
    /\ pc = "search"
    /\ IF ~HasAttr(args, "method")
         THEN /\ err' = Raise("AttributeError", 136)
              /\ pc' = "failed"
              /\ UNCHANGED <<sets, tested, calls>>
       ELSE IF args.search_strategy = "Enumerate"
         THEN IF Len(args.gene_set_sizes) = 0
                THEN /\ err' = Raise("IndexError", 141)
                     /\ pc' = "failed"
                     /\ UNCHANGED <<sets, tested, calls>>
                ELSE /\ \E iteration \in IterationOrders(genes) :
                          sets' = CandidateSets(iteration, args.gene_set_sizes[1])
                     /\ tested' = tested \o sets'
                     /\ calls' = calls \o
                          <<IF nameToTest[args.test] = "PERMUTATIONAL"
                              THEN "permutational_test" ELSE "test_sets",
                            "output_enumeration_table">>
                     /\ pc' = "done"
                     /\ UNCHANGED err
         ELSE /\ calls' = calls \o <<"mcmc", "output_mcmc">>
              /\ pc' = "done"
              /\ UNCHANGED <<err, sets, tested>>
    /\ UNCHANGED <<args, mutation_data, genes, patients, geneToCases, typeToGenes,
                   typeToGeneIndex, num_all_genes, num_patients, num_genes,
                   geneToIndex, geneToP>>
    /\ UNCHANGED <<pfVars, lwVars>>

run ==
    \/ CheckArguments
    \/ LoadMutationData
    \/ RestrictGenes
    \/ LoadWeights
    \/ FindPermuted
    \/ Search

\* ---------------------------------------------------- get_permuted_files
Min(a, b) == IF a <= b THEN a ELSE b
Max(a, b) == IF a >= b THEN a ELSE b

\* s[:stop]
SliceTo(s, stop) ==
    IF stop >= 0 THEN SubSeq(s, 1, Min(stop, Len(s)))
    ELSE SubSeq(s, 1, Max(0, Len(s) + stop))

\* line 54: '{}/{}'.format(permuted_matrix_dir, f), as the pair <<dir, f>>
PermutedMatrices(dir, files) == [k \in DOMAIN files |-> <<dir, files[k]>>]

\* line 56: the operand of assert is a generator object, which is always true
AssertedLengths(directory_files, np) == TRUE

\* line 58: zip(*lists) stops at the shortest list; zip() is []
Zip(lists) ==
    IF Len(lists) = 0 THEN <<>>
    ELSE LET shortest == CHOOSE k \in {Len(lists[c]) : c \in DOMAIN lists} :
                            \A c \in DOMAIN lists : k <= Len(lists[c])
         IN  [r \in 1..shortest |-> [c \in DOMAIN lists |-> lists[c][r]]]

\* the directory listings of the model: files 1..k, in either order
DirectoryListings == UNION {IterationOrders(1..k) : k \in 0..MaxFiles}

PfStart(dirs, np, at) ==
    /\ permuted_matrix_directories = dirs
    /\ num_permutations = np
    /\ listed = <<>>
    /\ permuted_directory_files = <<>>
    /\ permuted_files = <<>>
    /\ pf_pc = at
    /\ pf_err = NoError

PfInit ==
    \E D \in 0..MaxCohorts, np \in 0..MaxPermutations : PfStart(FileNames(D), np, "list")

PfIdle == PfStart(<<>>, 0, "idle")

\* lines 52-55, one iteration
ListDirectory ==
    /\ pf_pc = "list"
    /\ Len(permuted_directory_files) < Len(permuted_matrix_directories)
    /\ \E files \in DirectoryListings :
        LET dir == permuted_matrix_directories[Len(permuted_directory_files) + 1]
        IN  /\ listed' = Append(listed, files)
            /\ permuted_directory_files' =
                  Append(permuted_directory_files,
                         SliceTo(PermutedMatrices(dir, files), num_permutations))
    /\ UNCHANGED <<permuted_matrix_directories, num_permutations, permuted_files,
                   pf_pc, pf_err>>
    /\ UNCHANGED <<runVars, lwVars>>

\* lines 56-58
GroupFiles ==
    /\ pf_pc = "list"
    /\ Len(permuted_directory_files) = Len(permuted_matrix_directories)
    /\ IF AssertedLengths(permuted_directory_files, num_permutations)
         THEN /\ permuted_files' = Zip(permuted_directory_files)
              /\ pf_pc' = "returned"
              /\ UNCHANGED pf_err
         ELSE /\ pf_err' = Raise("AssertionError", 56)
              /\ pf_pc' = "failed"
              /\ UNCHANGED permuted_files
    /\ UNCHANGED <<permuted_matrix_directories, num_permutations, listed,
                   permuted_directory_files>>
    /\ UNCHANGED <<runVars, lwVars>>

get_permuted_files == ListDirectory \/ GroupFiles

\* ----------------------------------------------------- load_weight_files
\* np.zeros((m, n))
Zeros(m, n) == [r \in 0..(m - 1) |-> [c \in 0..(n - 1) |-> 0]]

\* P[P > 0]
PositiveCells(M) ==
    UNION {{M[r][c] : c \in {d \in DOMAIN M[r] : M[r][d] > 0}} : r \in DOMAIN M}

\* the weight arrays of the model, [local genes x local patients]: all zero,
\* or cell (r, c) holding (r + c) % 3
WeightKinds == {"zeros", "mixed"}
WeightArray(kind, rows, cols) ==
    [r \in 0..(rows - 1) |-> [c \in 0..(cols - 1) |->
        IF kind = "zeros" THEN 0 ELSE (r + c) % 3]]

\* lines 92-115 on a list of loaded cohorts: what run passes on
RECURSIVE AllCases(_)
AllCases(cohorts) ==
    IF cohorts = <<>> THEN <<>>
    ELSE RecordMutations(AllCases(SubSeq(cohorts, 1, Len(cohorts) - 1)),
                         cohorts[Len(cohorts)].typeGeneToCases)

Aligned(cohorts, min_frequency) ==
    LET all == UNION {SeqRange(cohorts[k].type_genes) : k \in DOMAIN cohorts}
        kept == DOMAIN RestrictToFrequency(AllCases(cohorts), all, min_frequency)
    IN  [typeToGenes |-> [k \in DOMAIN cohorts |-> cohorts[k].type_genes],
         typeToGeneIndex |-> [k \in DOMAIN cohorts |-> DictZipRange(cohorts[k].type_genes)],
         geneToIndex |-> IndexGenes(Ascending(kept)),
         m |-> Cardinality(kept),
         n |-> Cardinality(UNION {cohorts[k].type_patients : k \in DOMAIN cohorts})]

CohortLists == UNION {[1..L -> MutationData] : L \in 0..MaxCohorts}

LwStart(params, at) ==
    /\ lw = params
    /\ P = <<>>
    /\ patient_index = 0
    /\ lw_i = 0
    /\ lw_pc = at
    /\ lw_err = NoError

LwInit ==
    \E cohorts \in CohortLists, f \in 1..MaxFrequency :
        \E kinds \in [DOMAIN cohorts -> WeightKinds] :
            LwStart(Aligned(cohorts, f) @@
                    [weights_files |->
                        [k \in DOMAIN cohorts |->
                            WeightArray(kinds[k], Len(cohorts[k].type_genes),
                                        Cardinality(cohorts[k].type_patients))]],
                    "call")

LwIdle == LwStart(<<>>, "idle")

\* lines 62-63
Allocate ==
    /\ lw_pc = "call"
    /\ P' = Zeros(lw.m, lw.n)
    /\ patient_index' = 0
    /\ lw_pc' = "loop"
    /\ UNCHANGED <<lw, lw_i, lw_err>>
    /\ UNCHANGED <<runVars, pfVars>>

\* lines 64-68, one iteration.  Line 68 intersects with genes, a name bound
\* neither in load_weight_files nor in the module: after the file is read the
\* iteration ends in NameError, and lines 69-72 never run.
ReadWeights ==
    /\ lw_pc = "loop"
    /\ lw_i < Len(lw.weights_files)
    /\ "genes" \notin ModuleGlobals
    /\ lw_i' = lw_i + 1
    /\ lw_err' = Raise("NameError", 68)
    /\ lw_pc' = "failed"
    /\ UNCHANGED <<lw, P, patient_index>>
    /\ UNCHANGED <<runVars, pfVars>>

\* line 75, after the loop: np.min of an empty selection raises ValueError;
\* otherwise every zero cell takes the minimum and line 76 iterates genes
Pseudocount ==
    /\ lw_pc = "loop"
    /\ lw_i = Len(lw.weights_files)
    /\ IF PositiveCells(P) = {}
         THEN /\ lw_err' = Raise("ValueError", 75)
              /\ UNCHANGED P
         ELSE /\ LET least == CHOOSE x \in PositiveCells(P) :
                                 \A y \in PositiveCells(P) : x <= y
                 IN  P' = [r \in DOMAIN P |-> [c \in DOMAIN P[r] |->
                              IF P[r][c] = 0 THEN least ELSE P[r][c]]]
              /\ "genes" \notin ModuleGlobals
              /\ lw_err' = Raise("NameError", 76)
    /\ lw_pc' = "failed"
    /\ UNCHANGED <<lw, patient_index, lw_i>>
    /\ UNCHANGED <<runVars, pfVars>>

load_weight_files == Allocate \/ ReadWeights \/ Pseudocount

\* ------------------------------------------------------- specifications
vars == <<runVars, pfVars, lwVars>>

\* run(get_parser().parse_args(...)), line 162
Init == RunInit /\ PfIdle /\ LwIdle

Next == run

Spec == Init /\ [][Next]_vars

\* get_permuted_files called on its own
InitPermuted == RunIdle /\ PfInit /\ LwIdle

NextPermuted == get_permuted_files

SpecPermuted == InitPermuted /\ [][NextPermuted]_vars

\* load_weight_files called on its own
InitWeights == RunIdle /\ PfIdle /\ LwInit

NextWeights == load_weight_files

SpecWeights == InitWeights /\ [][NextWeights]_vars

\* ----------------------------------------------------------- properties
\* run has passed lines 108-115
PastAlignment ==
    \/ pc \in {"weights", "permuted", "search", "done"}
    \/ pc = "failed" /\ err.line > 115

\* the union, over the cohorts loaded, of the case sets of gene g
MergedCases(g) ==
    UNION {mutation_data[k].typeGeneToCases[g] :
             k \in {j \in DOMAIN mutation_data :
                       g \in DOMAIN mutation_data[j].typeGeneToCases}}

SurvivingGenes ==
    {g \in Genes : Cardinality(MergedCases(g)) >= args.min_frequency}

RECURSIVE Binomial(_, _)
Binomial(n, k) ==
    IF k = 0 THEN 1
    ELSE IF n = 0 THEN 0
    ELSE Binomial(n - 1, k - 1) + Binomial(n - 1, k)

Count(seq, x) == Cardinality({i \in DOMAIN seq : seq[i] = x})

\* C1: a run that asks for the Permutational test with the MCMC strategy is
\* rejected before anything else happens: it never gets past the argument
\* checks, so no mutation file is loaded, no directory is listed, no weights
\* file is read and no search engine or emitter is called.
C1_RejectedBeforeAnyFile ==
    (pc # "idle" /\ args.test = "Permutational" /\ args.search_strategy = "MCMC")
        => /\ pc \in {"check", "failed"}
           /\ pc = "failed" => err # NoError /\ err.line < 86
           /\ calls = <<>>
           /\ mutation_data = <<>>
           /\ listed = <<>>
           /\ lw_i = 0

\* C1 witness: such a run has been rejected, with nothing loaded
C1_Witness ==
    /\ pc = "failed"
    /\ args.test = "Permutational"
    /\ args.search_strategy = "MCMC"
    /\ Len(args.mutation_files) > 0
    /\ calls = <<>>

\* the number of files a parsed Namespace carries for the test's own option
NumTestFiles(a) ==
    IF a.test = "Permutational" THEN Len(a.permuted_matrix_files)
    ELSE 1  \* -wf takes one value

\* C2: when the number of mutation files differs from the number of permuted
\* matrix directories (Permutational) or of weights files (Weighted), run
\* aborts before the first mutation file is loaded; when the numbers are equal,
\* the count check (lines 81 and 84) does not abort the run.
C2_CountCheck ==
    (/\ pc \notin {"idle", "check"}
     /\ args.test \in {"Permutational", "Weighted"}
     /\ Len(args.mutation_files) > 0)
        => IF Len(args.mutation_files) # NumTestFiles(args)
             THEN pc = "failed" /\ calls = <<>>
             ELSE ~(pc = "failed" /\ err.line \in {81, 84})

\* C3: after the frequency filter a gene is in the gene set, and is a key of
\* geneToCases, exactly when the union over all cohorts of its case sets has at
\* least min_frequency members (so a union of exactly min_frequency members is
\* kept), and the case set kept for it is that union.
C3_SurvivesIffFrequent ==
    PastAlignment =>
        /\ genes = SurvivingGenes
        /\ DOMAIN geneToCases = SurvivingGenes
        /\ \A g \in DOMAIN geneToCases : geneToCases[g] = MergedCases(g)
        /\ num_genes = Cardinality(SurvivingGenes)

\* C3 witness: a gene kept at exactly the threshold, whose union is larger
\* than its case set in any one cohort, beside a gene that was dropped
C3_Witness ==
    /\ PastAlignment
    /\ \E g \in genes :
        /\ Cardinality(geneToCases[g]) = args.min_frequency
        /\ \A k \in DOMAIN mutation_data :
              g \in DOMAIN mutation_data[k].typeGeneToCases
                  => mutation_data[k].typeGeneToCases[g] # geneToCases[g]
    /\ \E h \in Genes : h \notin genes /\ MergedCases(h) # {}

\* C4: after alignment the domain of geneToIndex is exactly the set of genes
\* that passed the filter, the map is one-to-one onto 0..num_genes-1, a smaller
\* gene identifier has a smaller index, and the index of a gene is fixed by the
\* cohorts' case sets alone: it is the number of surviving genes below it,
\* whatever order the cohorts list their genes in.
C4_IndexIsSortedBijection ==
    PastAlignment =>
        /\ DOMAIN geneToIndex = SurvivingGenes
        /\ {geneToIndex[g] : g \in DOMAIN geneToIndex} = 0..(num_genes - 1)
        /\ \A g, h \in DOMAIN geneToIndex : g < h => geneToIndex[g] < geneToIndex[h]
        /\ \A g \in DOMAIN geneToIndex :
              geneToIndex[g] = Cardinality({h \in SurvivingGenes : h < g})

\* C4 witness: two or more genes indexed, a cohort that lists its genes out of
\* order, and a loaded gene that the filter dropped
C4_Witness ==
    /\ PastAlignment
    /\ num_genes >= 2
    /\ num_genes < num_all_genes
    /\ \E k \in DOMAIN typeToGenes :
          Len(typeToGenes[k]) >= 2 /\ typeToGenes[k] # sorted(typeToGenes[k])

\* C8: Enumerate with gene_set_sizes = [k] builds C(num_genes, k) candidate
\* sets, each a k-subset of the filtered genes and no two equal, and hands each
\* of them to a test exactly once: one call, of permutational_test or of
\* test_sets, with that list.
C8_EnumeratesEachSubsetOnce ==
    (pc = "done" /\ args.search_strategy = "Enumerate" /\ Len(args.gene_set_sizes) = 1)
        => LET k == args.gene_set_sizes[1]
           IN  /\ Len(sets) = Binomial(num_genes, k)
               /\ \A i \in DOMAIN sets : sets[i] \subseteq genes /\ Cardinality(sets[i]) = k
               /\ \A i, j \in DOMAIN sets : i # j => sets[i] # sets[j]
               /\ \A S \in SUBSET genes : Cardinality(S) = k => Count(tested, S) = 1
               /\ Len(tested) = Len(sets)
               /\ Count(calls, "permutational_test") + Count(calls, "test_sets") = 1

\* C8 witness: an enumeration over three or more genes has been tested
C8_Witness ==
    /\ pc = "done"
    /\ args.search_strategy = "Enumerate"
    /\ Len(args.gene_set_sizes) = 1
    /\ num_genes >= 3
    /\ Len(tested) >= 3

PfEnded == pf_pc \in {"returned", "failed"}

\* C7: get_permuted_files never truncates silently: if a cohort directory
\* holds fewer than num_permutations files, or the directories differ in their
\* number of files, the call ends in an error; otherwise it returns exactly
\* num_permutations tuples, tuple r holding, cohort by cohort, the path of the
\* r-th entry of that cohort's directory listing.
C7_NeverTruncates ==
    (PfEnded /\ Len(permuted_matrix_directories) > 0)
        => IF \/ \E c \in DOMAIN listed : Len(listed[c]) < num_permutations
              \/ \E c, d \in DOMAIN listed : Len(listed[c]) # Len(listed[d])
             THEN pf_pc = "failed" /\ pf_err # NoError
             ELSE /\ pf_pc = "returned"
                  /\ Len(permuted_files) = num_permutations
                  /\ \A r \in DOMAIN permuted_files :
                        permuted_files[r] =
                            [c \in DOMAIN listed |->
                                <<permuted_matrix_directories[c], listed[c][r]>>]

LwEnded == lw_pc \in {"returned", "failed"}

\* the genes of cohort k whose rows are to be copied
CopiedGenes(k) == SeqRange(lw.typeToGenes[k]) \cap DOMAIN lw.geneToIndex

Width(k) == IF lw.weights_files[k] = <<>> THEN 0
            ELSE Cardinality(DOMAIN lw.weights_files[k][0])

RECURSIVE BlockStart(_)
BlockStart(k) == IF k = 1 THEN 0 ELSE BlockStart(k - 1) + Width(k - 1)

\* the strictly positive cells of the rows to be copied
CopiedPositiveCells ==
    UNION {{lw.weights_files[k][lw.typeToGeneIndex[k][g]][c] :
              c \in {d \in 0..(Width(k) - 1) :
                        lw.weights_files[k][lw.typeToGeneIndex[k][g]][d] > 0}} :
           <<k, g>> \in {kg \in (DOMAIN lw.weights_files) \X Genes :
                            kg[2] \in CopiedGenes(kg[1])}}

\* the exceptions a raise or assert statement of the module gives
RaisedByModule == {"AssertionError", "NotImplementedError"}

\* C5: when some strictly positive cell is merged, load_weight_files returns a
\* matrix without any zero cell, no cell of it below the least strictly
\* positive cell merged.
C5_NoZeroAfterMerge ==
    (LwEnded /\ CopiedPositiveCells # {})
        => /\ lw_pc = "returned"
           /\ \A r \in DOMAIN P : \A c \in DOMAIN P[r] :
                 /\ P[r][c] # 0
                 /\ \E x \in CopiedPositiveCells : x <= P[r][c]

\* C6: when the merged matrix has no strictly positive cell, load_weight_files
\* ends in an error that the module itself raises, and not in the error of a
\* minimum taken over an empty selection.
C6_DegenerateDataIsRaised ==
    (LwEnded /\ CopiedPositiveCells = {})
        => /\ lw_pc = "failed"
           /\ lw_err.kind \in RaisedByModule

\* C9: cohort k's columns are the block that starts at the sum of the widths
\* of the cohorts before it and has the width of its own weight array; the row
\* of each gene that is both in the cohort and in the filtered gene set lands,
\* cell by cell, in that block of the gene's global row.
C9_CohortBlocks ==
    LwEnded =>
        \A k \in DOMAIN lw.weights_files : \A g \in CopiedGenes(k) :
            \A c \in 0..(Width(k) - 1) :
                LET cell == lw.weights_files[k][lw.typeToGeneIndex[k][g]][c]
                    row == lw.geneToIndex[g]
                    col == BlockStart(k) + c
                IN  /\ col \in DOMAIN P[row]
                    /\ cell # 0 => P[row][col] = cell

\* C10: the blocks tile the columns: when load_weight_files ends, the column
\* cursor patient_index equals n, the number of distinct patients.
C10_BlocksTileColumns ==
    LwEnded => patient_index = lw.n

====
